---- MODULE Spec2Model ----
(***************************************************************************)
(* Model of custom_components/bedjet/climate.py: one BedjetDeviceEntity    *)
(* (the device session), the BleakClient transport it owns, the coroutines *)
(* that run connect / subscribe / disconnect and the command operations on *)
(* it, and the notification decoder handle_data.                           *)
(*                                                                         *)
(* asyncio is cooperative: a coroutine runs without interruption from one  *)
(* await to the next.  Every action below is one such segment: it starts   *)
(* when the awaited transport call (or sleep) returns and runs to the next *)
(* await of the same coroutine.  The transport is the environment: the     *)
(* outcome of each of its calls is chosen nondeterministically.            *)
(***************************************************************************)
EXTENDS Integers, Sequences, FiniteSets, TLC

\* ------------------------------------------------------------------ bounds
\* Number of coroutines that may be suspended on the session at once.
MaxTasks == 2
\* max_retries passed by a direct caller of connect / subscribe: 1..MaxRetries.
MaxRetries == 3
\* Cap on the default max_retries (10 in the source) that
\* connect_and_subscribe() and the connect() inside subscribe() run with.
DefaultRetries == 2
\* Notifications delivered in one behaviour (bounds the last_seen clock).
MaxNotifications == 2

\* ------------------------------------------------------- program constants
\* reconnect_interval of connect (seconds).
ConnectInterval == 10
\* reconnect_interval of subscribe (seconds).
SubscribeInterval == 3
\* The minutes async_set_hvac_mode passes to set_time.
HvacTimer == 600
\* Python's None where an int is expected (the unset fields of the entity).
None == -1

VARIABLES
    connected,      \* client.is_connected
    callback,       \* on_disconnect is the client's disconnected callback
    notifying,      \* handle_data is registered with start_notify
    duplicate,      \* the transport is about to raise its disconnect signal again
    tasks,          \* the suspended coroutines, in creation order
    returned,       \* the call that has just returned to (or raised in) its caller
    status,         \* the entity's status fields, set by handle_data
    clock,          \* notifications received so far (what datetime.now() reads)
    received,       \* the payload of the last notification (<<>> before the first)
    setupDone,      \* async_setup_entry has run
    everConnected,  \* some client.connect() of this session has succeeded
    firstTry        \* the setup cycle connected and subscribed on its first try

vars == <<connected, callback, notifying, duplicate, tasks, returned, status,
          clock, received, setupDone, everConnected, firstTry>>

\* ------------------------------------------------------------ mode model
HVACModes == {"off", "cool", "heat", "dry"}

PresetModes == {"off", "cool", "heat", "dry", "turbo", "ext_ht", "m1", "m2", "m3"}

\* PresetMode.to_hvac: map.get(self), None for a preset the map does not hold.
to_hvac(preset) ==
    CASE preset = "off" -> "off"
      [] preset = "cool" -> "cool"
      [] preset = "heat" -> "heat"
      [] preset = "dry" -> "dry"
      [] preset = "turbo" -> "heat"
      [] preset = "ext_ht" -> "heat"
      [] OTHER -> "None"

\* const.BEDJET_COMMANDS: the command byte of each mode name.
BEDJET_COMMANDS ==
    [m \in PresetModes |->
        CASE m = "off" -> 1 [] m = "cool" -> 2 [] m = "heat" -> 3
          [] m = "turbo" -> 4 [] m = "dry" -> 5 [] m = "ext_ht" -> 6
          [] m = "m1" -> 32 [] m = "m2" -> 33 [] m = "m3" -> 34]

\* HVACMode.command / PresetMode.command: BEDJET_COMMANDS.get(self.value)
command(mode) == BEDJET_COMMANDS[mode]

\* FanMode: the members in definition order, with their values.
FanMode == <<[name |-> "min", value |-> 10], [name |-> "low", value |-> 25],
             [name |-> "medium", value |-> 50], [name |-> "high", value |-> 75],
             [name |-> "max", value |-> 100]>>

\* ------------------------------------------------------------ arithmetic
\* A round that drops the fraction.
RoundDown(n, d) == n \div d

\* Python round(n / d) for d > 0.  With d = 9 or d = 5 the quotient n / d is
\* never halfway between two integers, so rounding half up is rounding to
\* the nearest (Python rounds halves to even).
Round(n, d) == (2 * n + d) \div (2 * d)

\* Python int(n / d) for d > 0: truncation toward zero.
Trunc(n, d) == IF n >= 0 THEN n \div d ELSE -((-n) \div d)

\* ------------------------------------------------------------ handle_data
\* value[j] of the notification payload (0-based, as in the source).
Byte(value, j) == value[j + 1]

\* round(((int(value[7]) - 0x26) + 66) - ((int(value[7]) - 0x26) / 9))
get_current_temperature(value) ==
    Round(9 * ((Byte(value, 7) - 38) + 66) - (Byte(value, 7) - 38), 9)

\* round(((int(value[8]) - 0x26) + 66) - ((int(value[8]) - 0x26) / 9))
get_target_temperature(value) ==
    Round(9 * ((Byte(value, 8) - 38) + 66) - (Byte(value, 8) - 38), 9)

get_time(value) ==
    (Byte(value, 4) * 60 * 60) + (Byte(value, 5) * 60) + Byte(value, 6)

get_timestring(value) ==
    ToString(Byte(value, 4)) \o ":" \o ToString(Byte(value, 5)) \o ":"
        \o ToString(Byte(value, 6))

get_fan_pct(value) == Byte(value, 10) * 5

\* The chain of tests on value[14] and value[13]; None when none matches.
get_preset_mode(value) ==
    CASE Byte(value, 14) = 80 /\ Byte(value, 13) = 20 -> "off"
      [] Byte(value, 14) = 52 -> "cool"
      [] Byte(value, 14) = 86 -> "turbo"
      [] Byte(value, 14) = 80 /\ Byte(value, 13) = 45 -> "heat"
      [] Byte(value, 14) = 62 -> "dry"
      [] Byte(value, 14) = 67 -> "ext_ht"
      [] Byte(value, 14) = 32 -> "m1"
      [] Byte(value, 14) = 33 -> "m2"
      [] Byte(value, 14) = 34 -> "m3"
      [] OTHER -> "None"

\* A get_hvac_mode that takes the preset itself for the operating mode.
get_hvac_mode_unprojected(value) == get_preset_mode(value)

\* get_preset_mode(value).to_hvac()
get_hvac_mode(value) == to_hvac(get_preset_mode(value))

\* The number of the assignments of lines 374-381 that handle_data completes
\* before an exception ends it: value[j] raises IndexError for j >= len(value)
\* and get_preset_mode(value).to_hvac() raises AttributeError on None.
Assigned(value) ==
    IF Len(value) <= 7 THEN 0
    ELSE IF Len(value) <= 8 THEN 1
    ELSE IF Len(value) <= 10 THEN 4
    ELSE IF Len(value) <= 14 THEN 5
    ELSE IF get_preset_mode(value) = "None" THEN 5
    ELSE 8

\* BedjetDeviceEntity.__init__: every status field is None.
EmptyStatus ==
    [current_temperature |-> None, target_temperature |-> None, time |-> None,
     timestring |-> "None", fan_pct |-> None, hvac_mode |-> "None",
     preset_mode |-> "None", last_seen |-> None]

\* handle_data lines 374-381, in order, up to the first exception.
handle_data_status(old, value, now) ==
    LET n == Assigned(value) IN
    [current_temperature |->
        IF n >= 1 THEN get_current_temperature(value) ELSE old.current_temperature,
     target_temperature |->
        IF n >= 2 THEN get_target_temperature(value) ELSE old.target_temperature,
     time |-> IF n >= 3 THEN get_time(value) ELSE old.time,
     timestring |-> IF n >= 4 THEN get_timestring(value) ELSE old.timestring,
     fan_pct |-> IF n >= 5 THEN get_fan_pct(value) ELSE old.fan_pct,
     hvac_mode |-> IF n >= 6 THEN get_hvac_mode(value) ELSE old.hvac_mode,
     preset_mode |-> IF n >= 7 THEN get_preset_mode(value) ELSE old.preset_mode,
     last_seen |-> IF n >= 8 THEN now ELSE old.last_seen]

\* The notification payloads the appliance (or a faulty link) delivers: len
\* bytes, zero except at the offsets handle_data reads.
Payload(len, hms, t, fan, b13, b14) ==
    [j \in 1..len |->
        CASE j = 5 -> hms [] j = 6 -> hms + 1 [] j = 7 -> hms + 2
          [] j = 8 -> t [] j = 9 -> t + 9 [] j = 11 -> fan
          [] j = 14 -> b13 [] j = 15 -> b14 [] OTHER -> 0]

Payloads ==
    { Payload(15, 1, 38, 4, 45, 80),     \* heat
      Payload(16, 2, 56, 20, 0, 32),     \* m1
      Payload(5, 3, 0, 0, 0, 0),         \* too short for any field
      Payload(8, 3, 47, 0, 0, 0),        \* ends after value[7]
      Payload(15, 5, 74, 12, 0, 80) }    \* 0x50 with an unknown qualifier

\* ------------------------------------------------------------ coroutines
\* A suspended coroutine: the operation its caller started (op), who started
\* it (origin), the await it is suspended on (pc), the max_retries of its
\* connect() and subscribe() calls (cn, sn), the loop index i, and what the
\* current call has done so far: transport attempts (att), failed attempts
\* (fails), the backoff of the last sleep (w), the connect attempts of the
\* whole cycle (catt); for subscribe and the commands whether the client was
\* connected on entry (entry) and whether connect() was run first (ranc);
\* for a command the payloads still to send (todo) and those written (sent).
Coroutine(op, origin, pc, cn, sn) ==
    [op |-> op, origin |-> origin, pc |-> pc, cn |-> cn, sn |-> sn, i |-> 0,
     att |-> 0, fails |-> 0, w |-> 0, catt |-> 0, entry |-> TRUE, ranc |-> FALSE,
     todo |-> <<>>, sent |-> <<>>]

\* What the caller of a finished call observes: the call, its max_retries n,
\* what it did, its result ("ok" or the exception), is_connected at that
\* moment (conn), and whether the step ran on_disconnect (fired).
Ended(call, n, r, result, conn, fired) ==
    [call |-> call, origin |-> r.origin, n |-> n, att |-> r.att, fails |-> r.fails,
     w |-> r.w, result |-> result, conn |-> conn, entry |-> r.entry, ranc |-> r.ranc,
     fired |-> fired, sent |-> r.sent, before |-> <<>>]

NoCall == Ended("none", 0, Coroutine("none", "none", "none", 0, 0), "none", FALSE, FALSE)

\* No call is returning to its caller at this moment.
Running == returned = NoCall

Remove(ts, k) == SubSeq(ts, 1, k - 1) \o SubSeq(ts, k + 1, Len(ts))

\* A backoff that counts the failed attempts from zero: no wait after the first.
connect_backoff_from_zero(i) == i * ConnectInterval

\* connect(): backoff_seconds = (i+1) * reconnect_interval
connect_backoff(i) == (i + 1) * ConnectInterval

\* A backoff that does not grow: the same wait after every failed attempt.
subscribe_backoff_constant(i) == SubscribeInterval

\* subscribe(): backoff_seconds = (i+1) * reconnect_interval
subscribe_backoff(i) == (i + 1) * SubscribeInterval

\* for i in range(0, max_retries): is there an iteration after iteration i
range_more(i, max_retries) == i + 1 < max_retries

\* connect_and_subscribe(max_retries): connect(max_retries) is entered and runs
\* to its first await, client.connect(); subscribe(max_retries) follows it.
connect_and_subscribe(origin, max_retries) ==
    Coroutine("connect_and_subscribe", origin, "connect", max_retries, max_retries)

\* An on_disconnect that leaves itself registered.
on_disconnect_stays_registered == TRUE

\* on_disconnect: the value it passes to set_disconnected_callback (None).
on_disconnect_callback == FALSE

\* An on_disconnect that unregisters itself and starts no cycle.
on_disconnect_without_task(ts) == ts

\* on_disconnect: asyncio.create_task(self.connect_and_subscribe())
on_disconnect(ts) == Append(ts, connect_and_subscribe("on_disconnect", DefaultRetries))

\* The transport raises its disconnect signal: the registered callback runs.
Signal(ts) ==
    /\ callback => Len(ts) < MaxTasks
    /\ callback' = IF callback THEN on_disconnect_callback ELSE callback
    /\ tasks' = IF callback THEN on_disconnect(ts) ELSE ts

\* The transport closes the connection (client.disconnect() succeeded, or the
\* link dropped): it raises the disconnect signal if it was connected.
Closed(ts) ==
    /\ connected' = FALSE
    /\ notifying' = FALSE
    /\ IF connected THEN Signal(ts) ELSE tasks' = ts /\ callback' = callback

\* subscribe() lines 392-397: the retry loop is entered and runs to its first
\* await, client.start_notify().
subscribe_loop(r) ==
    [r EXCEPT !.pc = "start_notify", !.i = 0, !.att = 0, !.fails = 0, !.w = 0,
              !.catt = r.att]

\* connect() lines 310-313: what the loop registers once is_connected holds.
connect_callback == TRUE

\* connect() lines 310-315: the client is connected, so the callback is
\* registered, the loop is left and connect() returns; connect_and_subscribe
\* and subscribe go on to the subscribe loop.
connect_returns(k, r) ==
    /\ callback' = connect_callback
    /\ IF r.op = "connect"
       THEN /\ tasks' = Remove(tasks, k)
            /\ returned' = Ended("connect", r.cn, r, "ok", connected', FALSE)
       ELSE /\ tasks' = [tasks EXCEPT ![k] = subscribe_loop(r)]
            /\ returned' = returned

\* An exception leaves connect(): it also ends the connect_and_subscribe or
\* subscribe call that awaited it.
connect_raises(k, r, error) ==
    /\ returned' = Ended("connect", r.cn, r, error, connected', FALSE)
    /\ tasks' = Remove(tasks, k)

\* connect() line 297: await self.client.connect() returns or raises
\* (lines 298-301: the backoff is computed, the defensive disconnect is next).
client_connect(k) ==
    /\ Running
    /\ tasks[k].pc = "connect"
    /\ \/ /\ connected' = TRUE
          /\ everConnected' = TRUE
          /\ duplicate' = FALSE
          /\ connect_returns(k, [tasks[k] EXCEPT !.att = @ + 1])
          /\ UNCHANGED <<notifying, status, clock, received, setupDone, firstTry>>
       \/ /\ tasks' = [tasks EXCEPT ![k] =
                          [@ EXCEPT !.pc = "cleanup", !.att = @ + 1, !.fails = @ + 1,
                                    !.w = connect_backoff(tasks[k].i)]]
          /\ UNCHANGED <<connected, callback, notifying, duplicate, returned, status,
                         clock, received, setupDone, everConnected, firstTry>>

\* connect() lines 303-308: await self.client.disconnect() returns, raises
\* BleakError (caught and logged) or raises another exception (not caught by
\* "except BleakError": it leaves connect()); then asyncio.sleep is awaited.
client_cleanup(k) ==
    /\ Running
    /\ tasks[k].pc = "cleanup"
    /\ \/ /\ Closed([tasks EXCEPT ![k].pc = "sleep"])
          /\ UNCHANGED <<duplicate, returned, status, clock, received, setupDone, everConnected,
                         firstTry>>
       \/ /\ tasks' = [tasks EXCEPT ![k].pc = "sleep"]
          /\ UNCHANGED <<connected, callback, notifying, duplicate, returned, status,
                         clock, received, setupDone, everConnected, firstTry>>
       \/ /\ UNCHANGED <<connected, callback, notifying, duplicate, status, clock, received,
                         setupDone, everConnected, firstTry>>
          /\ connect_raises(k, tasks[k], "error")

\* connect() lines 308-319: asyncio.sleep(backoff_seconds) returns; the loop
\* is left when the client is connected, goes on to the next attempt while
\* attempts remain, and otherwise ends in "Failed to connect".
connect_sleep(k) ==
    /\ Running
    /\ tasks[k].pc = "sleep"
    /\ IF connected
       THEN /\ UNCHANGED <<connected, notifying, duplicate, status, clock, received, setupDone,
                           everConnected, firstTry>>
            /\ connect_returns(k, tasks[k])
       ELSE IF range_more(tasks[k].i, tasks[k].cn)
       THEN /\ tasks' = [tasks EXCEPT ![k] = [@ EXCEPT !.pc = "connect", !.i = @ + 1]]
            /\ UNCHANGED <<connected, callback, notifying, duplicate, returned, status,
                           clock, received, setupDone, everConnected, firstTry>>
       ELSE /\ UNCHANGED <<connected, callback, notifying, duplicate, status, clock, received,
                           setupDone, everConnected, firstTry>>
            /\ connect_raises(k, tasks[k], "ConnectionFailed")

\* subscribe() lines 396-407: await self.client.start_notify() returns (only
\* a connected client can register the callback) or raises.
client_start_notify(k) ==
    /\ Running
    /\ tasks[k].pc = "start_notify"
    /\ \/ /\ connected
          /\ UNCHANGED <<connected, callback, duplicate, status, clock, received, setupDone,
                         everConnected>>
          /\ notifying' = TRUE
          /\ LET r == [tasks[k] EXCEPT !.att = @ + 1] IN
             /\ returned' = Ended("subscribe", r.sn, r, "ok", connected, FALSE)
             /\ firstTry' = (firstTry \/ (r.origin = "setup" /\ r.catt = 1 /\ r.att = 1))
          /\ tasks' = Remove(tasks, k)
       \/ /\ tasks' = [tasks EXCEPT ![k] =
                          [@ EXCEPT !.pc = "sleep3", !.att = @ + 1, !.fails = @ + 1,
                                    !.w = subscribe_backoff(tasks[k].i)]]
          /\ UNCHANGED <<connected, callback, notifying, duplicate, returned, status,
                         clock, received, setupDone, everConnected, firstTry>>

\* subscribe() lines 407-413: asyncio.sleep(backoff_seconds) returns; next
\* attempt, or "Failed to subscribe" when the attempts are used up.
subscribe_sleep(k) ==
    /\ Running
    /\ tasks[k].pc = "sleep3"
    /\ UNCHANGED <<connected, callback, notifying, duplicate, status, clock, received,
                   setupDone, everConnected, firstTry>>
    /\ IF range_more(tasks[k].i, tasks[k].sn)
       THEN /\ tasks' = [tasks EXCEPT ![k] =
                            [@ EXCEPT !.pc = "start_notify", !.i = @ + 1]]
            /\ returned' = returned
       ELSE /\ returned' = Ended("subscribe", tasks[k].sn, tasks[k],
                                 "SubscriptionFailed", connected, FALSE)
            /\ tasks' = Remove(tasks, k)

\* disconnect() line 333: await self.client.disconnect() returns or raises;
\* nothing catches the exception, it reaches the caller of disconnect().
client_disconnect(k) ==
    /\ Running
    /\ tasks[k].pc = "close"
    /\ \/ /\ Closed(Remove(tasks, k))
          /\ returned' = Ended("disconnect", 0, tasks[k], "ok", FALSE,
                               connected /\ callback)
          /\ UNCHANGED <<duplicate, status, clock, received, setupDone, everConnected, firstTry>>
       \/ /\ UNCHANGED <<connected, callback, notifying, duplicate, status, clock, received,
                         setupDone, everConnected, firstTry>>
          /\ returned' = Ended("disconnect", 0, tasks[k], "error", connected, FALSE)
          /\ tasks' = Remove(tasks, k)

\* The caller of the call that has just ended takes its result or exception.
caller_resumes ==
    /\ returned /= NoCall
    /\ returned' = NoCall
    /\ UNCHANGED <<connected, callback, notifying, duplicate, tasks, status, clock, received,
                   setupDone, everConnected, firstTry>>

\* ------------------------------------------------- callers of the session
\* async_setup_entry: asyncio.create_task(bedjet.connect_and_subscribe())
async_setup_entry ==
    /\ Running
    /\ ~setupDone
    /\ Len(tasks) < MaxTasks
    /\ setupDone' = TRUE
    /\ tasks' = Append(tasks, connect_and_subscribe("setup", DefaultRetries))
    /\ UNCHANGED <<connected, callback, notifying, duplicate, returned, status, clock, received,
                   everConnected, firstTry>>

\* update_data: if not self.is_connected: await self.connect_and_subscribe()
update_data ==
    /\ Running
    /\ setupDone
    /\ Len(tasks) < MaxTasks
    /\ tasks' = IF ~connected
                THEN Append(tasks, connect_and_subscribe("update_data", DefaultRetries))
                ELSE tasks
    /\ UNCHANGED <<connected, callback, notifying, duplicate, returned, status, clock, received,
                   setupDone, everConnected, firstTry>>

\* A caller awaits connect(max_retries).
connect(max_retries) ==
    /\ Running
    /\ Len(tasks) < MaxTasks
    /\ tasks' = Append(tasks, Coroutine("connect", "host", "connect", max_retries, 0))
    /\ UNCHANGED <<connected, callback, notifying, duplicate, returned, status, clock, received,
                   setupDone, everConnected, firstTry>>

\* subscribe() lines 389-390: connect() with its default max_retries runs
\* first when the client is not connected.
subscribe_enter(r) ==
    IF ~r.entry
    THEN [r EXCEPT !.pc = "connect", !.cn = DefaultRetries, !.ranc = TRUE]
    ELSE subscribe_loop(r)

\* A caller awaits subscribe(max_retries).
subscribe(max_retries) ==
    /\ Running
    /\ Len(tasks) < MaxTasks
    /\ tasks' = Append(tasks,
           subscribe_enter([Coroutine("subscribe", "host", "enter", 0, max_retries)
                               EXCEPT !.entry = connected]))
    /\ UNCHANGED <<connected, callback, notifying, duplicate, returned, status, clock, received,
                   setupDone, everConnected, firstTry>>

\* disconnect() lines 332-333: the callback is unregistered, then
\* client.disconnect() is awaited.
disconnect ==
    /\ Running
    /\ setupDone
    /\ Len(tasks) < MaxTasks
    /\ callback' = FALSE
    /\ tasks' = Append(tasks, Coroutine("disconnect", "host", "close", 0, 0))
    /\ UNCHANGED <<connected, notifying, duplicate, returned, status, clock, received, setupDone,
                   everConnected, firstTry>>

\* ------------------------------------------------------------ commands
\* set_mode: the payload [0x01, mode]
set_mode(mode) == <<1, mode>>

\* set_time: the payload [0x02, minutes // 60, minutes % 60]
set_time(minutes) == <<2, minutes \div 60, minutes % 60>>

\* async_set_fan_mode: fan_pct of a numeric argument or of a FanMode name.
fan_value(fan_mode) ==
    IF fan_mode.numeric THEN fan_mode.n
    ELSE (CHOOSE m \in {FanMode[j] : j \in 1..Len(FanMode)} : m.name = fan_mode.name).value

\* async_set_fan_mode: nothing is sent for a fan_pct outside 0..100, else the
\* payload [0x07, round(fan_pct/5)-1].
set_fan_mode(fan_mode) ==
    IF ~(fan_value(fan_mode) >= 0 /\ fan_value(fan_mode) <= 100) THEN <<>>
    ELSE << <<7, Round(fan_value(fan_mode), 5) - 1>> >>

\* async_set_temperature: temp_byte = (int((temp - 60) / 9) + (temp - 66)) + 0x26
temp_byte(temp) == (Trunc(temp - 60, 9) + (temp - 66)) + 38

\* async_set_temperature: the payload [0x03, temp_byte]
set_temperature(temp) == << <<3, temp_byte(temp)>> >>

\* An async_set_hvac_mode that sends the mode and no timer.
set_hvac_mode_without_timer(hvac_mode) == <<set_mode(command(hvac_mode))>>

\* async_set_hvac_mode: set_mode(HVACMode(hvac_mode).command()), set_time(600)
set_hvac_mode(hvac_mode) == <<set_mode(command(hvac_mode)), set_time(HvacTimer)>>

\* async_set_preset_mode: set_mode(PresetMode(preset_mode).command())
set_preset_mode(preset_mode) == <<set_mode(command(preset_mode))>>

\* A send_command that writes whatever the connection state.
send_command_unguarded(is_connected) == TRUE

\* send_command: "if self.is_connected:" decides whether write_gatt_char runs.
send_command(is_connected) == is_connected

\* The arguments the host passes to the command operations.
FanInputs ==
    {[numeric |-> FALSE, name |-> "min", n |-> 0],
     [numeric |-> TRUE, name |-> "", n |-> 50],
     [numeric |-> TRUE, name |-> "", n |-> 101]}

Commands ==
    {set_hvac_mode(m) : m \in {"heat"}}
        \cup {set_preset_mode(m) : m \in {"turbo", "m3"}}
        \cup {set_fan_mode(f) : f \in FanInputs}
        \cup {set_temperature(t) : t \in {72}}
        \cup {<<set_time(minutes)>> : minutes \in {90}}

\* A command operation has sent what it could: send_command returns None for
\* each payload while the client is not connected.
command_done(r) == r.todo = <<>> \/ ~send_command(connected)

\* The host awaits a command operation (async_set_hvac_mode,
\* async_set_preset_mode, async_set_fan_mode, async_set_temperature,
\* set_time): it runs to the first write_gatt_char it awaits, or to its end.
command_call(todo) ==
    /\ Running
    /\ setupDone
    /\ Len(tasks) < MaxTasks
    /\ LET r == [Coroutine("command", "host", "write", 0, 0)
                    EXCEPT !.todo = todo, !.entry = connected] IN
       IF command_done(r)
       THEN /\ tasks' = tasks
            /\ returned' = [Ended("command", 0, r, "ok", connected, FALSE)
                               EXCEPT !.before = <<status, connected, callback,
                                                   notifying, tasks>>]
       ELSE /\ tasks' = Append(tasks, r)
            /\ returned' = returned
    /\ UNCHANGED <<connected, callback, notifying, duplicate, status, clock, received,
                   setupDone, everConnected, firstTry>>

\* send_command line 417: await write_gatt_char returns (the client is
\* connected) or raises; the operation goes on to its next payload.
client_write(k) ==
    /\ Running
    /\ tasks[k].pc = "write"
    /\ UNCHANGED <<connected, callback, notifying, duplicate, status, clock, received,
                   setupDone, everConnected, firstTry>>
    /\ \/ /\ connected
          /\ LET r == [tasks[k] EXCEPT !.sent = Append(@, Head(tasks[k].todo)),
                                       !.todo = Tail(@)] IN
             IF command_done(r)
             THEN /\ returned' = Ended("command", 0, r, "ok", connected, FALSE)
                  /\ tasks' = Remove(tasks, k)
             ELSE /\ returned' = returned
                  /\ tasks' = [tasks EXCEPT ![k] = r]
       \/ /\ returned' = Ended("command", 0, tasks[k], "error", connected, FALSE)
          /\ tasks' = Remove(tasks, k)

\* ------------------------------------------------------------ transport
\* The link to the appliance drops; the transport raises the disconnect
\* signal and may raise it a second time, before any new connection is made
\* (client_connect drops a signal still pending for the old connection).
TransportDrop ==
    /\ Running
    /\ connected
    /\ Closed(tasks)
    /\ duplicate' \in BOOLEAN
    /\ UNCHANGED <<returned, status, clock, received, setupDone, everConnected, firstTry>>

\* The transport raises the disconnect signal of the last drop again.
TransportDuplicateSignal ==
    /\ Running
    /\ duplicate
    /\ duplicate' = FALSE
    /\ Signal(tasks)
    /\ UNCHANGED <<connected, notifying, returned, status, clock, received, setupDone,
                   everConnected, firstTry>>

\* The appliance notifies: the transport calls handle_data(handle, value).
handle_data(value) ==
    /\ Running
    /\ connected /\ notifying
    /\ clock < MaxNotifications
    /\ clock' = clock + 1
    /\ status' = handle_data_status(status, value, clock')
    /\ received' = value
    /\ UNCHANGED <<connected, callback, notifying, duplicate, tasks, returned,
                   setupDone, everConnected, firstTry>>

\* ------------------------------------------------------- specification
\* BedjetDeviceEntity.__init__: the client is created, not connected, with
\* on_disconnect as its disconnected callback; the status fields are None.
Init ==
    /\ connected = FALSE
    /\ callback = TRUE
    /\ notifying = FALSE
    /\ duplicate = FALSE
    /\ tasks = <<>>
    /\ returned = NoCall
    /\ status = EmptyStatus
    /\ clock = 0
    /\ received = <<>>
    /\ setupDone = FALSE
    /\ everConnected = FALSE
    /\ firstTry = FALSE

\* The session as Home Assistant drives it.
Next ==
    \/ \E k \in 1..Len(tasks) : client_connect(k)
    \/ \E k \in 1..Len(tasks) : client_cleanup(k)
    \/ \E k \in 1..Len(tasks) : connect_sleep(k)
    \/ \E k \in 1..Len(tasks) : client_start_notify(k)
    \/ \E k \in 1..Len(tasks) : subscribe_sleep(k)
    \/ \E k \in 1..Len(tasks) : client_disconnect(k)
    \/ \E k \in 1..Len(tasks) : client_write(k)
    \/ caller_resumes
    \/ async_setup_entry
    \/ update_data
    \/ disconnect
    \/ \E todo \in Commands : command_call(todo)
    \/ TransportDrop
    \/ TransportDuplicateSignal
    \/ \E value \in Payloads : handle_data(value)

Spec == Init /\ [][Next]_vars

\* The session under direct calls of connect(n) and subscribe(n).
NextCalls ==
    \/ \E k \in 1..Len(tasks) : client_connect(k)
    \/ \E k \in 1..Len(tasks) : client_cleanup(k)
    \/ \E k \in 1..Len(tasks) : connect_sleep(k)
    \/ \E k \in 1..Len(tasks) : client_start_notify(k)
    \/ \E k \in 1..Len(tasks) : subscribe_sleep(k)
    \/ caller_resumes
    \/ \E n \in 1..MaxRetries : connect(n)
    \/ \E n \in 1..MaxRetries : subscribe(n)
    \/ TransportDrop
    \/ TransportDuplicateSignal

SpecCalls == Init /\ [][NextCalls]_vars

\* The unexpected-disconnect path alone: setup, link drops and the reconnect
\* cycles they start, under the scheduling asyncio guarantees: a coroutine
\* whose await has completed is resumed.
NextReconnect ==
    \/ \E k \in 1..Len(tasks) : client_connect(k)
    \/ \E k \in 1..Len(tasks) : client_cleanup(k)
    \/ \E k \in 1..Len(tasks) : connect_sleep(k)
    \/ \E k \in 1..Len(tasks) : client_start_notify(k)
    \/ \E k \in 1..Len(tasks) : subscribe_sleep(k)
    \/ caller_resumes
    \/ async_setup_entry
    \/ TransportDrop
    \/ TransportDuplicateSignal

Scheduling ==
    /\ WF_vars(caller_resumes)
    /\ \A k \in 1..MaxTasks :
        /\ SF_vars(k <= Len(tasks) /\ client_connect(k))
        /\ SF_vars(k <= Len(tasks) /\ client_cleanup(k))
        /\ SF_vars(k <= Len(tasks) /\ connect_sleep(k))
        /\ SF_vars(k <= Len(tasks) /\ client_start_notify(k))
        /\ SF_vars(k <= Len(tasks) /\ subscribe_sleep(k))

SpecReconnect == Init /\ [][NextReconnect]_vars /\ Scheduling

\* ---------------------------------------------------------------- claims
Suspended == {tasks[k] : k \in 1..Len(tasks)}

\* The coroutines that are inside connect() or connect_and_subscribe().
Cycles ==
    {k \in 1..Len(tasks) : tasks[k].op \in {"connect", "connect_and_subscribe"}}

\* C1: at no point are two connect / connect-and-subscribe cycles of the
\* session in progress at once, whatever the interleaving of the setup task,
\* the disconnect signals and update_data.
C1_AtMostOneCycle == Cardinality(Cycles) <= 1

\* The reconnect cycles on_disconnect has started that are still in progress.
Reconnects(ts) == {k \in 1..Len(ts) : ts[k].origin = "on_disconnect"}

C3_ExhaustsAttempts ==
    (returned.call = "connect" /\ ~everConnected) =>
        /\ returned.result = "ConnectionFailed"
        /\ returned.att = returned.n
        /\ ~returned.conn

\* C4: in connect(), the wait after the k-th failed attempt is k * 10 s and
\* no more than max_retries attempts are made; a call whose own
\* client.connect() succeeds after N failures returns at once, connected,
\* after exactly N + 1 attempts, N below max_retries, its last wait N * 10 s.
C4_ConnectRetry ==
    /\ \A r \in Suspended :
          r.pc \in {"cleanup", "sleep"} =>
              /\ r.fails = r.att
              /\ r.att <= r.cn
              /\ r.w = r.fails * ConnectInterval
    /\ (returned.call = "connect" /\ returned.result = "ok"
            /\ returned.att /= returned.fails) =>
          /\ returned.att = returned.fails + 1
          /\ returned.att <= returned.n
          /\ returned.w = returned.fails * ConnectInterval
          /\ returned.conn

\* connect(3) has returned after two failures and a third, successful attempt.
C4_Witness ==
    /\ returned.call = "connect" /\ returned.result = "ok"
    /\ returned.n = 3 /\ returned.fails = 2 /\ returned.att = 3 /\ returned.w = 20

\* A payload handle_data decodes to the end: at least 15 bytes with a known
\* discriminator combination.
Complete(value) == Len(value) >= 15 /\ get_preset_mode(value) /= "None"

\* C5: the stored status is the initial empty one or the complete decode of
\* one single payload (with its receipt time).
C5_WholeStatus ==
    \/ status = EmptyStatus
    \/ \E value \in Payloads, now \in 1..MaxNotifications :
          /\ Complete(value)
          /\ status = handle_data_status(EmptyStatus, value, now)

\* C6: subscribe(max_retries) runs connect() first exactly when the client is
\* not connected on entry, and enters its loop only after that connect() has
\* made an attempt; in the loop the wait after the k-th failed attempt is
\* k * 3 s and no more than max_retries attempts are made; it returns at the
\* first success and raises "Failed to subscribe" after exactly max_retries
\* failed attempts.
C6_SubscribeRetry ==
    /\ \A r \in Suspended :
          /\ r.op = "subscribe" =>
                /\ r.ranc = ~r.entry
                /\ (r.pc \in {"start_notify", "sleep3"} /\ ~r.entry) => r.catt >= 1
          /\ r.pc = "start_notify" => (r.fails = r.att /\ r.att < r.sn)
          /\ r.pc = "sleep3" =>
                (r.fails = r.att /\ r.att >= 1 /\ r.att <= r.sn
                    /\ r.w = r.fails * SubscribeInterval)
    /\ returned.call = "subscribe" =>
          /\ returned.ranc = ~returned.entry
          /\ returned.result \in {"ok", "SubscriptionFailed"}
          /\ returned.result = "ok" =>
                (returned.att = returned.fails + 1 /\ returned.att <= returned.n
                    /\ returned.w = returned.fails * SubscribeInterval)
          /\ returned.result = "SubscriptionFailed" =>
                (returned.att = returned.n /\ returned.fails = returned.n
                    /\ returned.w = returned.n * SubscribeInterval)

\* subscribe(3), entered while not connected, has run connect() first and
\* has then failed three times.
C6_Witness ==
    /\ returned.call = "subscribe" /\ returned.origin = "host"
    /\ ~returned.entry /\ returned.ranc
    /\ returned.result = "SubscriptionFailed" /\ returned.n = 3 /\ returned.w = 9

\* A reconnect cycle started by on_disconnect is in progress.
ReconnectRuns == Reconnects(tasks) /= {}

\* A reconnect cycle started by on_disconnect has just ended.
ReconnectEnded == returned.call /= "none" /\ returned.origin = "on_disconnect"

\* C7: the step that closes the connection with the handler registered
\* unregisters the handler and starts connect_and_subscribe() with the
\* default max_retries; that cycle waits k * 10 s after its k-th failed
\* connect and k * 3 s after its k-th failed subscribe; when its subscribe
\* succeeds the session is connected and notifying with the handler
\* registered again; and every such cycle in progress leads to one ending.
C7_Reconnect ==
    /\ [][(connected /\ ~connected' /\ callback) =>
            /\ ~callback'
            /\ Len(tasks') >= 1
            /\ tasks'[Len(tasks')].origin = "on_disconnect"
            /\ tasks'[Len(tasks')].op = "connect_and_subscribe"
            /\ tasks'[Len(tasks')].pc = "connect"
            /\ tasks'[Len(tasks')].att = 0]_vars
    /\ [](\A r \in Suspended :
            r.origin = "on_disconnect" =>
                /\ r.cn = DefaultRetries /\ r.sn = DefaultRetries
                /\ r.pc \in {"cleanup", "sleep"} => r.w = r.fails * ConnectInterval
                /\ r.pc = "sleep3" => r.w = r.fails * SubscribeInterval)
    /\ []((ReconnectEnded /\ returned.call = "subscribe" /\ returned.result = "ok") =>
            (connected /\ notifying /\ callback))
    /\ (ReconnectRuns ~> ReconnectEnded)

\* A reconnect cycle has subscribed again.
C7_Witness ==
    /\ ReconnectEnded /\ returned.call = "subscribe" /\ returned.result = "ok"
    /\ connected /\ notifying /\ callback

\* C8: the close performed by an explicit disconnect() never runs
\* on_disconnect, so it starts no reconnect cycle.
C8_CloseStartsNoReconnect == returned.call = "disconnect" => ~returned.fired

\* C9: disconnect() returns normally to its caller, also when the close of
\* the transport fails.
C9_DisconnectReturns == returned.call = "disconnect" => returned.result = "ok"

\* C10: a command operation issued while the client is not connected writes
\* nothing, raises nothing, leaves no coroutine behind that would write
\* later, and leaves the status and the connection state as they were.
C10_SkippedWhenDisconnected ==
    /\ \A r \in Suspended : r.op = "command" => (r.entry /\ r.todo /= <<>>)
    /\ (returned.call = "command" /\ ~returned.entry) =>
          /\ returned.sent = <<>>
          /\ returned.result = "ok"
          /\ returned.before = <<status, connected, callback, notifying, tasks>>

\* A command operation has returned after being issued while not connected,
\* with a decoded status stored.
C10_Witness ==
    /\ returned.call = "command" /\ ~returned.entry
    /\ ~connected /\ status /= EmptyStatus

\* C11: async_set_hvac_mode sends [0x01, modeByte] and then [0x02, 10, 0],
\* async_set_preset_mode sends [0x01, modeByte] alone; a command operation
\* issued while connected writes its payloads in that order and nothing
\* else, and has written all of them when it returns normally.
C11_ModeThenTimer ==
    /\ \A m \in HVACModes :
          set_hvac_mode(m) = << <<1, BEDJET_COMMANDS[m]>>, <<2, 10, 0>> >>
    /\ \A p \in PresetModes : set_preset_mode(p) = << <<1, BEDJET_COMMANDS[p]>> >>
    /\ \A r \in Suspended : r.op = "command" => (r.sent \o r.todo) \in Commands
    /\ (returned.call = "command" /\ returned.entry) =>
          \E todo \in Commands :
              /\ Len(returned.sent) <= Len(todo)
              /\ returned.sent = SubSeq(todo, 1, Len(returned.sent))
              /\ returned.result = "ok" => returned.sent = todo

\* async_set_hvac_mode("heat") has returned after writing both commands.
C11_Witness ==
    /\ returned.call = "command" /\ returned.entry /\ returned.result = "ok"
    /\ returned.sent = << <<1, 3>>, <<2, 10, 0>> >>

\* C12: the stored operating mode is always to_hvac of the stored preset
\* mode, and a step that changes either of them stores both, decoded from
\* one and the same payload.
C12_ModeIsProjection ==
    [][/\ status.hvac_mode = to_hvac(status.preset_mode)
       /\ status'.hvac_mode = to_hvac(status'.preset_mode)
       /\ (status'.hvac_mode /= status.hvac_mode
             \/ status'.preset_mode /= status.preset_mode) =>
            \E value \in Payloads :
                /\ Complete(value)
                /\ status'.preset_mode = get_preset_mode(value)
                /\ status'.hvac_mode = get_hvac_mode(value)]_vars

\* A notification that ended early has stored a temperature after the modes
\* of an earlier, complete one were stored.
C12_Witness ==
    /\ status.preset_mode = "heat" /\ status.hvac_mode = "heat"
    /\ status.current_temperature = 74

\* ------------------------------------------------- codec and mode model
\* The largest value of a payload byte.
MaxByte == 255

\* BedjetDeviceEntity.min_temp
min_temp == 66

\* BedjetDeviceEntity.max_temp
max_temp == 109

\* FanMode.get_fan_mode: None for no percent (None or 0), else the first
\* member, in definition order, with fan_pct <= value; None when there is none.
get_fan_mode(fan_pct) ==
    IF fan_pct = None \/ fan_pct = 0 THEN "None"
    ELSE IF \E j \in 1..Len(FanMode) : fan_pct <= FanMode[j].value
    THEN FanMode[CHOOSE j \in 1..Len(FanMode) :
                    /\ fan_pct <= FanMode[j].value
                    /\ \A h \in 1..(j - 1) : ~(fan_pct <= FanMode[h].value)].name
    ELSE "None"

\* BedjetDeviceEntity.fan_mode:
\* FanMode.get_fan_mode(self.fan_pct).name if self.fan_pct else None
\* (.name of None raises AttributeError).
fan_mode(fan_pct) ==
    IF fan_pct = None \/ fan_pct = 0 THEN "None"
    ELSE IF get_fan_mode(fan_pct) = "None" THEN "AttributeError"
    ELSE get_fan_mode(fan_pct)

\* A complete notification: 15 bytes, zero except value[7], value[8],
\* value[10], value[13] and value[14].
Report(b7, b8, b10, b13, b14) ==
    [j \in 1..15 |->
        CASE j = 8 -> b7 [] j = 9 -> b8 [] j = 11 -> b10
          [] j = 14 -> b13 [] j = 15 -> b14 [] OTHER -> 0]

\* The (value[13], value[14]) pairs get_preset_mode knows, one per preset.
Discriminators ==
    {<<20, 80>>, <<0, 52>>, <<0, 86>>, <<45, 80>>, <<0, 62>>, <<0, 67>>,
     <<0, 32>>, <<0, 33>>, <<0, 34>>}

\* Complete notifications with every temperature byte, every fan byte and
\* every preset.
CodecPayloads ==
    {Report(b, b, 4, 45, 80) : b \in 0..MaxByte}
        \cup {Report(38, 38, b, 45, 80) : b \in 0..MaxByte}
        \cup {Report(38, 38, 4, d[1], d[2]) : d \in Discriminators}

\* The appliance reports, as value[8], the byte async_set_temperature(temp)
\* wrote for a temperature the entity supports.
temperature_reported(temp) == handle_data(Report(38, temp_byte(temp), 4, 45, 80))

\* A session that has connected and subscribed (setup has succeeded).
InitSubscribed ==
    /\ connected = TRUE
    /\ callback = TRUE
    /\ notifying = TRUE
    /\ duplicate = FALSE
    /\ tasks = <<>>
    /\ returned = NoCall
    /\ status = EmptyStatus
    /\ clock = 0
    /\ received = <<>>
    /\ setupDone = TRUE
    /\ everConnected = TRUE
    /\ firstTry = TRUE

\* The decoder on its own: a subscribed session receiving notifications.
NextCodec ==
    \/ \E value \in CodecPayloads : handle_data(value)
    \/ \E temp \in min_temp..max_temp : temperature_reported(temp)

SpecCodec == InitSubscribed /\ [][NextCodec]_vars

\* C13: to_hvac maps each of the nine presets to one of the four operating
\* modes, turbo and ext_ht to heat, and gives the same result when called
\* again: whenever a preset is stored, the operating mode stored with it is
\* that result.
C13_ToHvacTotal ==
    \A p \in PresetModes :
        status.preset_mode = p =>
            /\ to_hvac(p) \in HVACModes
            /\ p \in {"turbo", "ext_ht"} => to_hvac(p) = "heat"
            /\ status.hvac_mode = to_hvac(p)

\* The lowest tier whose threshold is at least the percent.
LowestTier(pct) ==
    FanMode[CHOOSE j \in 1..Len(FanMode) :
                /\ pct <= FanMode[j].value
                /\ \A h \in 1..Len(FanMode) :
                      pct <= FanMode[h].value => FanMode[j].value <= FanMode[h].value].name

\* C14: the fan level the entity exposes for the stored fan percent is the
\* lowest tier among min, low, medium, high, max whose threshold is at least
\* the percent, and None, not an error, when the percent is above 100 or absent.
C14_FanLevel ==
    fan_mode(status.fan_pct) =
        IF status.fan_pct = None \/ status.fan_pct > 100 THEN "None"
        ELSE LowestTier(status.fan_pct)

\* C15: for a temperature byte b from 0x26 up, the decoded current
\* temperature (b = value[7]) and target temperature (b = value[8]) equal
\* ((b - 0x26) + 66) - ((b - 0x26) integer-divided by 9).
C15_TemperatureFormula ==
    received /= <<>> =>
        /\ Byte(received, 7) >= 38 =>
              status.current_temperature =
                  ((Byte(received, 7) - 38) + 66) - ((Byte(received, 7) - 38) \div 9)
        /\ Byte(received, 8) >= 38 =>
              status.target_temperature =
                  ((Byte(received, 8) - 38) + 66) - ((Byte(received, 8) - 38) \div 9)

\* t is the integer nearest to n / 9.
Nearest9(t, n) == 2 * (9 * t - n) <= 9 /\ 2 * (n - 9 * t) <= 9

\* C15 as amended: for a temperature byte b from 0x26 up, the decoded current
\* temperature (b = value[7]) and target temperature (b = value[8]) are the
\* integer nearest to ((b - 0x26) + 66) - (b - 0x26) / 9, the division exact.
C15_TemperatureRounded ==
    received /= <<>> =>
        /\ Byte(received, 7) >= 38 =>
              Nearest9(status.current_temperature,
                       9 * ((Byte(received, 7) - 38) + 66) - (Byte(received, 7) - 38))
        /\ Byte(received, 8) >= 38 =>
              Nearest9(status.target_temperature,
                       9 * ((Byte(received, 8) - 38) + 66) - (Byte(received, 8) - 38))

\* The byte 0x2B has been decoded: 70, where integer division gives 71.
C15_Witness ==
    /\ received /= <<>>
    /\ Byte(received, 7) = 43 /\ Byte(received, 8) = 43
    /\ status.current_temperature = 70 /\ status.target_temperature = 70

\* C16: only a notification changes the status: connect, subscribe,
\* disconnect, on_disconnect and every retry or exhaustion step leave it as
\* it was; and when connect or subscribe gives up, the session reports not
\* connected with the status it had.
C16_StatusKept ==
    [][/\ status' /= status => (connected /\ notifying /\ clock' = clock + 1)
       /\ (returned = NoCall
             /\ returned'.result \in {"ConnectionFailed", "SubscriptionFailed"}) =>
            (status' = status /\ ~connected')]_vars

\* C17: whenever on_disconnect is registered as the client's disconnected
\* callback, a client.connect() of this session has succeeded before.
C17_RegisteredAfterConnect == callback => everConnected

\* C18: an error of the defensive disconnect never leaves connect(): the
\* call ends normally or, after all max_retries attempts, in "Failed to
\* connect", and in no other error.
C18_CleanupSwallowed ==
    returned.call = "connect" =>
        /\ returned.result \in {"ok", "ConnectionFailed"}
        /\ returned.result = "ConnectionFailed" => returned.att = returned.n

\* The callers that start connect_and_subscribe().
CycleOrigins == {"setup", "update_data", "on_disconnect"}

\* C19: a connect_and_subscribe(max_retries) cycle makes no more than
\* max_retries connect attempts, starts subscribing only after connect() has
\* returned with a connect of the session having succeeded, and, when its
\* connect() fails, ends in "Failed to connect" without having subscribed.
C19_ConnectThenSubscribe ==
    /\ \A r \in Suspended :
          r.op = "connect_and_subscribe" =>
              /\ r.origin \in CycleOrigins /\ r.cn = r.sn
              /\ r.pc \in {"connect", "cleanup", "sleep"} =>
                    (r.att <= r.cn /\ r.catt = 0)
              /\ r.pc \in {"start_notify", "sleep3"} =>
                    (everConnected /\ r.catt >= 1 /\ r.catt <= r.cn)
    /\ (returned.call = "connect" /\ returned.origin \in CycleOrigins
            /\ returned.result /= "ok") =>
          /\ returned.result = "ConnectionFailed"
          /\ returned.att = returned.n
          /\ ~returned.conn

\* C20: for every temperature T from min_temp to max_temp, the byte
\* async_set_temperature(T) writes, reported back as value[8], decodes to the
\* target temperature T.
C20_TemperatureRoundTrip ==
    \A T \in min_temp..max_temp :
        (received /= <<>> /\ Byte(received, 8) = temp_byte(T)) =>
            status.target_temperature = T

====
